---- MODULE Spec2Model ----
(***************************************************************************)
(* A model of the CRM backend (src/backend/app): the lead and activity     *)
(* request handlers over the shared row store, and the startup routine     *)
(* that creates the bootstrap administrator under a Postgres advisory      *)
(* lock.                                                                   *)
(*                                                                         *)
(* Conventions.  A row's id is its index in its table (ids are serial and  *)
(* no row is ever removed).  A nullable column or an optional request      *)
(* value is <<>> (NULL / None) or <<v>>.  Text is a sequence of one-       *)
(* character strings where the code looks inside it (the budget filters),  *)
(* and a plain string where it only compares it.                           *)
(***************************************************************************)
EXTENDS Integers, Sequences, FiniteSets, TLC

VARIABLES
    users,        \* table users:      Seq of [email, is_admin]
    leads,        \* table leads:      Seq of lead rows
    activities,   \* table activities: Seq of activity rows
    now,          \* the store's clock (func.now()), in ticks
    last,         \* the request handled last and its status code: [op, code]
    pc,           \* startup: where each worker is in _bootstrap_admin_once
    lock,         \* startup: the worker holding advisory lock LOCK_KEY, 0 if free
    pending,      \* startup: workers whose INSERT is flushed but not committed
    dash,         \* the dashboard request in flight: its caller, instant and results
    upd           \* the update request in flight: its caller, payload and loaded row

vars == <<users, leads, activities, now, last, pc, lock, pending, dash, upd>>
storeVars == <<users, leads, activities, now>>
bootVars == <<pc, lock, pending>>

----------------------------------------------------------------------------
(* Bounds of the model *)

MaxLeads == 2      \* lead rows created in one behaviour
MaxActs == 1       \* activity rows created in one behaviour
MaxPage == 2       \* page numbers tried by list
MaxUsers == 3      \* accounts created in one behaviour
NWorkers == 3      \* worker processes started concurrently
TicksPerDay == 2   \* clock ticks in a day

None == <<>>
Some(v) == <<v>>

Min(a, b) == IF a <= b THEN a ELSE b

----------------------------------------------------------------------------
(* Request inputs, drawn from small sets *)

LeadIds == 1..(MaxLeads + 1)           \* MaxLeads + 1 never exists
StatusVals == {"new", "won"}
SourceVals == {None}
BudgetVals == {None}
ActivityTypes == {"call", "email", "meeting", "note"}
DurationVals == {None, Some(-1), Some(0), Some(15)}

\* LeadCreate bodies (schemas.py: status defaults to "new")
LeadCreatePayloads ==
    [status : {Some(s) : s \in StatusVals}, source : SourceVals,
     budget_min : BudgetVals, budget_max : BudgetVals]

\* LeadUpdate bodies as payload.dict(exclude_unset=True): only the fields sent
LeadUpdatePayloads ==
    {[status |-> Some("won")],
     [is_active |-> Some(TRUE)], [is_active |-> Some(FALSE)],
     [is_active |-> None],
     [status |-> Some("new"), is_active |-> Some(TRUE)]}

\* ActivityCreate bodies (activity_date left out: it defaults to the write time)
ActivityPayloads == [activity_type : ActivityTypes, duration : DurationVals]

\* The bodies the activity requests of a behaviour are drawn from
AddPayloads ==
    [activity_type : {"call"}, duration : DurationVals]
    \cup {[activity_type |-> "email", duration |-> None],
          [activity_type |-> "meeting", duration |-> Some(0)],
          [activity_type |-> "note", duration |-> Some(-1)]}

\* Budget filter texts: absent, blank, a number, not a number
BudgetTexts == {None, Some(<<" ">>), Some(<<"0">>), Some(<<"a">>)}

NoFilters ==
    [status_filter |-> None, source |-> None, min_budget |-> None, max_budget |-> None]

LeadFilters ==
    {[NoFilters EXCEPT !.status_filter = Some("won")]}
    \cup {[NoFilters EXCEPT !.min_budget = t] : t \in BudgetTexts}
    \cup {[NoFilters EXCEPT !.max_budget = Some(<<"a">>)]}

PageSizes == {1, 10}

----------------------------------------------------------------------------
(* The caller: users.get_current_user resolved the token to a users row *)

Callers == 1..Len(users)

is_admin(c) == users[c].is_admin

----------------------------------------------------------------------------
(* routers/leads.py *)

Digits == {"0", "1", "2", "3", "4", "5", "6", "7", "8", "9"}

DigitVal(ch) ==
    CASE ch = "0" -> 0 [] ch = "1" -> 1 [] ch = "2" -> 2 [] ch = "3" -> 3
      [] ch = "4" -> 4 [] ch = "5" -> 5 [] ch = "6" -> 6 [] ch = "7" -> 7
      [] ch = "8" -> 8 [] ch = "9" -> 9

RECURSIVE lstrip(_)
lstrip(s) == IF s # <<>> /\ Head(s) = " " THEN lstrip(Tail(s)) ELSE s

RECURSIVE rstrip(_)
rstrip(s) ==
    IF s # <<>> /\ s[Len(s)] = " " THEN rstrip(SubSeq(s, 1, Len(s) - 1)) ELSE s

\* str.strip()
strip(s) == rstrip(lstrip(s))

\* the characters str.isdigit() accepts: the decimal digits and the other
\* characters of Unicode type Digit, such as the superscript two
DigitChars == Digits \cup {"²"}

\* str.isdigit()
isdigit(s) == s # <<>> /\ \A i \in 1..Len(s) : s[i] \in DigitChars

\* int(s) raises ValueError for a text that is not a decimal literal
ValueError == <<"ValueError", "invalid literal for int() with base 10">>

RECURSIVE DecimalValue(_)
DecimalValue(s) ==
    IF s = <<>> THEN 0
    ELSE 10 * DecimalValue(SubSeq(s, 1, Len(s) - 1)) + DigitVal(s[Len(s)])

\* int(s), for a text str.isdigit() accepted
int(s) ==
    IF \A i \in 1..Len(s) : s[i] \in Digits THEN Some(DecimalValue(s)) ELSE ValueError

\* _to_int: an optional text to an optional integer, or the ValueError raised
_to_int(v) ==
    IF v = None THEN None
    ELSE IF isdigit(strip(v[1])) THEN int(strip(v[1])) ELSE None

\* mb = _to_int(min_budget); xb = _to_int(max_budget) raises
FilterRaises(f) == ValueError \in {_to_int(f.min_budget), _to_int(f.max_budget)}

\* _scoped_query without the user_id filter
_scoped_query_any_owner(c) ==
    {i \in 1..Len(leads) : leads[i].is_active}

\* _scoped_query without the is_active filter
_scoped_query_archived(c) ==
    {i \in 1..Len(leads) : is_admin(c) \/ leads[i].user_id = c}

\* _scoped_query: the ids of the rows the caller's base query selects
_scoped_query(c) ==
    {i \in 1..Len(leads) :
        leads[i].is_active /\ (is_admin(c) \/ leads[i].user_id = c)}

\* _filter_leads_query raises HTTPException(400) for this min_budget
InvalidMin(f) ==
    f.min_budget # None /\ _to_int(f.min_budget) = None /\ strip(f.min_budget[1]) # <<>>

\* _filter_leads_query raises HTTPException(400) for this max_budget
InvalidMax(f) ==
    f.max_budget # None /\ _to_int(f.max_budget) = None /\ strip(f.max_budget[1]) # <<>>

InvalidFilter(f) == InvalidMin(f) \/ InvalidMax(f)

\* the detail of the 400, min_budget being looked at first
InvalidDetail(f) ==
    IF InvalidMin(f) THEN "Invalid filter input for min_budget"
    ELSE "Invalid filter input for max_budget"

\* _filter_leads_query: the rows of `query` the filters keep (requests carry no q)
_filter_leads_query(query, f) ==
    LET mb == _to_int(f.min_budget)
        xb == _to_int(f.max_budget)
    IN  {i \in query :
            /\ (f.status_filter # None /\ f.status_filter[1] # "") => leads[i].status = f.status_filter
            /\ (f.source # None /\ f.source[1] # "") => leads[i].source = f.source
            /\ mb # None => (leads[i].budget_min # None /\ leads[i].budget_min[1] >= mb[1])
            /\ xb # None => (leads[i].budget_max # None /\ leads[i].budget_max[1] <= xb[1])}

\* order_by(created_at.desc()): every order of S the store may return
Orderings(S) ==
    {o \in [1..Cardinality(S) -> S] :
        /\ \A i, j \in 1..Cardinality(S) : i # j => o[i] # o[j]
        /\ \A i, j \in 1..Cardinality(S) :
              i < j => leads[o[i]].created_at >= leads[o[j]].created_at}

\* A response: status code, detail, the ids of the rows returned, and list's total
Resp(code, detail, body, total) ==
    [code |-> code, detail |-> detail, body |-> body, total |-> total]

NewLead_admin_for_member(c, payload) ==
    [user_id |-> IF users[c].is_admin THEN 1 ELSE c, is_active |-> TRUE,
     status |-> payload.status,
     source |-> payload.source, budget_min |-> payload.budget_min,
     budget_max |-> payload.budget_max, created_at |-> now, updated_at |-> now]

\* models.Lead(**data, user_id=user.id): is_active takes its server default
NewLead(c, payload) ==
    [user_id |-> c, is_active |-> TRUE, status |-> payload.status,
     source |-> payload.source, budget_min |-> payload.budget_min,
     budget_max |-> payload.budget_max, created_at |-> now, updated_at |-> now]

\* create_lead: the response and the table after it
create_lead(c, payload) ==
    [resp |-> Resp(201, "", <<Len(leads) + 1>>, 0),
     leads |-> Append(leads, NewLead(c, payload))]

\* list_leads skipping page * page_size rows
list_leads_offset_by_page(c, f, page, page_size) ==
    IF FilterRaises(f)
    THEN {Resp(500, "Failed to list leads", <<>>, 0)}
    ELSE IF InvalidFilter(f)
    THEN {Resp(400, InvalidDetail(f), <<>>, 0)}
    ELSE LET rows == _filter_leads_query(_scoped_query(c), f)
             off == page * page_size
         IN  {Resp(200, "", SubSeq(o, off + 1, Min(off + page_size, Len(o))),
                   Cardinality(rows)) : o \in Orderings(rows)}

\* list_leads: every response the handler may give (ties in created_at are
\* returned in any order)
list_leads(c, f, page, page_size) ==
    IF FilterRaises(f)
    THEN {Resp(500, "Failed to list leads", <<>>, 0)}
    ELSE IF InvalidFilter(f)
    THEN {Resp(400, InvalidDetail(f), <<>>, 0)}
    ELSE LET rows == _filter_leads_query(_scoped_query(c), f)
             off == (page - 1) * page_size
         IN  {Resp(200, "", SubSeq(o, off + 1, Min(off + page_size, Len(o))),
                   Cardinality(rows)) : o \in Orderings(rows)}

\* export_leads_csv without the filters
export_leads_csv_unfiltered(c, f) ==
    IF FilterRaises(f)
    THEN {Resp(500, "Failed to export leads", <<>>, 0)}
    ELSE IF InvalidFilter(f)
    THEN {Resp(400, InvalidDetail(f), <<>>, 0)}
    ELSE {Resp(200, "", o, Cardinality(_scoped_query(c))) : o \in Orderings(_scoped_query(c))}

\* export_leads_csv: every response the handler may give
export_leads_csv(c, f) ==
    IF FilterRaises(f)
    THEN {Resp(500, "Failed to export leads", <<>>, 0)}
    ELSE IF InvalidFilter(f)
    THEN {Resp(400, InvalidDetail(f), <<>>, 0)}
    ELSE LET rows == _filter_leads_query(_scoped_query(c), f)
         IN  {Resp(200, "", o, Cardinality(rows)) : o \in Orderings(rows)}

get_lead(c, lead_id) ==
    IF lead_id \in _scoped_query(c)
    THEN Resp(200, "", <<lead_id>>, 0)
    ELSE Resp(404, "Lead not found", <<>>, 0)

\* payload.dict() without exclude_unset: the fields not sent are set to None
ApplyUpdate_unset_as_none(row, payload) ==
    [k \in DOMAIN row |->
        IF k \in DOMAIN payload
        THEN (IF k = "is_active" THEN payload[k][1] ELSE payload[k])
        ELSE IF k \in {"status", "source", "budget_min", "budget_max"} THEN None
        ELSE row[k]]

\* setattr(lead, k, v) for the fields sent
ApplyUpdate(row, payload) ==
    [k \in DOMAIN row |->
        IF k \in DOMAIN payload
        THEN (IF k = "is_active" THEN payload[k][1] ELSE payload[k])
        ELSE row[k]]

\* the row as the store keeps it: onupdate=func.now() when an UPDATE is emitted
Written(old, new) ==
    IF new = old THEN old ELSE [new EXCEPT !.updated_at = now]

\* the flush writing every column of the loaded row back
update_flush_all_columns(current, loaded, payload) ==
    [ApplyUpdate(loaded, payload) EXCEPT !.updated_at = now]

\* db.commit() of update_lead: UPDATE leads SET <the attributes whose value
\* differs from the one loaded>, updated_at = now() WHERE id = <the row's id>,
\* acting on the row as it is committed by then; nothing is sent when no
\* attribute differs
update_flush(current, loaded, payload) ==
    LET new == ApplyUpdate(loaded, payload)
        changed == {k \in DOMAIN loaded : new[k] # loaded[k]}
    IN  IF changed = {} THEN current
        ELSE [k \in DOMAIN current |->
                IF k \in changed THEN new[k]
                ELSE IF k = "updated_at" THEN now
                ELSE current[k]]

\* update_lead looking the row up without the is_active filter
update_lead_archived(c, lead_id, payload) ==
    IF lead_id \notin _scoped_query_archived(c)
    THEN [resp |-> Resp(404, "Lead not found", <<>>, 0), leads |-> leads]
    ELSE IF "is_active" \in DOMAIN payload /\ payload["is_active"] = None
    THEN [resp |-> Resp(500, "Failed to update lead", <<>>, 0), leads |-> leads]
    ELSE [resp |-> Resp(200, "", <<lead_id>>, 0),
          leads |-> [leads EXCEPT ![lead_id] = Written(@, ApplyUpdate(@, payload))]]

\* update_lead: the response and the table after it
update_lead(c, lead_id, payload) ==
    IF lead_id \notin _scoped_query(c)
    THEN [resp |-> Resp(404, "Lead not found", <<>>, 0), leads |-> leads]
    ELSE IF "is_active" \in DOMAIN payload /\ payload["is_active"] = None
    THEN \* is_active is NOT NULL: the commit fails, rollback, 500
         [resp |-> Resp(500, "Failed to update lead", <<>>, 0), leads |-> leads]
    ELSE [resp |-> Resp(200, "", <<lead_id>>, 0),
          leads |-> [leads EXCEPT ![lead_id] = Written(@, ApplyUpdate(@, payload))]]

\* delete_lead answering 204 again for a row that is already soft-deleted
delete_lead_idempotent(c, lead_id) ==
    IF lead_id \notin _scoped_query_archived(c)
    THEN [resp |-> Resp(404, "Lead not found", <<>>, 0), leads |-> leads]
    ELSE [resp |-> Resp(204, "", <<>>, 0),
          leads |-> [leads EXCEPT ![lead_id] = Written(@, [@ EXCEPT !.is_active = FALSE])]]

\* delete_lead: the response and the table after it
delete_lead(c, lead_id) ==
    IF lead_id \notin _scoped_query(c)
    THEN [resp |-> Resp(404, "Lead not found", <<>>, 0), leads |-> leads]
    ELSE [resp |-> Resp(204, "", <<>>, 0),
          leads |-> [leads EXCEPT ![lead_id] = Written(@, [@ EXCEPT !.is_active = FALSE])]]

----------------------------------------------------------------------------
(* routers/activities.py, schemas.py *)

\* _get_active_lead: 0 when the lead is returned, else the HTTPException's code
_get_active_lead(lead_id, c) ==
    IF lead_id \notin 1..Len(leads) \/ ~leads[lead_id].is_active THEN 404
    ELSE IF ~is_admin(c) /\ leads[lead_id].user_id # c THEN 403
    ELSE 0

GuardDetail(code) ==
    IF code = 404 THEN "Lead not found or is archived" ELSE "Not permitted"

\* the duration rule applied to every activity type
validate_duration_any_type(payload) ==
    payload.duration # None /\ payload.duration[1] > 0

\* ActivityCreate.validate_call_duration: TRUE when the body passes
validate_call_duration(payload) ==
    payload.activity_type = "call" => (payload.duration # None /\ payload.duration[1] > 0)

\* order_by(activity_date.desc(), created_at.desc()): every order the store may return
ActivityOrderings(S) ==
    {o \in [1..Cardinality(S) -> S] :
        /\ \A i, j \in 1..Cardinality(S) : i # j => o[i] # o[j]
        /\ \A i, j \in 1..Cardinality(S) :
              i < j =>
                \/ activities[o[i]].activity_date > activities[o[j]].activity_date
                \/ /\ activities[o[i]].activity_date = activities[o[j]].activity_date
                   /\ activities[o[i]].created_at >= activities[o[j]].created_at}

\* list_activities: every response the handler may give
list_activities(c, lead_id) ==
    LET g == _get_active_lead(lead_id, c)
    IN  IF g # 0 THEN {Resp(g, GuardDetail(g), <<>>, 0)}
        ELSE {Resp(200, "", o, 0) :
                o \in ActivityOrderings({a \in 1..Len(activities) :
                                            activities[a].lead_id = lead_id})}

NewActivity(c, lead_id, payload) ==
    [lead_id |-> lead_id, user_id |-> c, activity_type |-> payload.activity_type,
     duration |-> payload.duration, activity_date |-> now, created_at |-> now]

\* add_activity: the response and the table after it.  The body is parsed as an
\* ActivityCreate, validator included, before the handler's own code runs.
add_activity(c, lead_id, payload) ==
    LET g == _get_active_lead(lead_id, c)
    IN  IF ~validate_call_duration(payload)
        THEN [resp |-> Resp(422, "duration must be a positive integer for call activities", <<>>, 0),
              activities |-> activities]
        ELSE IF g # 0
        THEN [resp |-> Resp(g, GuardDetail(g), <<>>, 0), activities |-> activities]
        ELSE IF payload.activity_type = "call"
                /\ (payload.duration = None \/ payload.duration[1] <= 0)
        THEN [resp |-> Resp(422, "duration must be a positive integer for call activities", <<>>, 0),
              activities |-> activities]
        ELSE [resp |-> Resp(201, "", <<Len(activities) + 1>>, 0),
              activities |-> Append(activities, NewActivity(c, lead_id, payload))]

----------------------------------------------------------------------------
(* routers/dashboard.py.  Instants are ticks; tick 0 is Monday 2024-01-01   *)
(* 00:00 UTC, and a day has TicksPerDay ticks.                             *)

\* timedelta(days=n)
days(n) == n * TicksPerDay

\* datetime.date() / cast(.., Date): the day number of an instant
date(t) == t \div TicksPerDay

\* now.weekday(): Monday is 0
weekday(t) == date(t) % 7

\* week_start, and Postgres date_trunc('week', ..): Monday 00:00 of the week
week_start(t) == days(date(t) - weekday(t))

\* the day numbers of the first days of January .. May 2024
MonthFirstDays == {0, 31, 60, 91, 121}

\* month_start = now.replace(day=1, hour=0, ...)
month_start(t) ==
    days(CHOOSE m \in MonthFirstDays :
            m <= date(t) /\ \A n \in MonthFirstDays : n <= date(t) => n <= m)

\* act_q with the parent lead required to be active
act_q_active(c) ==
    {a \in 1..Len(activities) :
        /\ leads[activities[a].lead_id].is_active
        /\ is_admin(c) \/ leads[activities[a].lead_id].user_id = c}

\* act_q without the user_id filter
act_q_any_owner(c) == 1..Len(activities)

\* lead_q: the active leads in the caller's scope
lead_q(c) ==
    {i \in 1..Len(leads) :
        leads[i].is_active /\ (is_admin(c) \/ leads[i].user_id = c)}

\* act_total_q / act_q: Activity joined to its Lead, scoped by the lead's owner
act_q(c) ==
    {a \in 1..Len(activities) :
        is_admin(c) \/ leads[activities[a].lead_id].user_id = c}

\* group_by(col).all(), col giving each row's value of the column: value -> count
GroupCount(col) ==
    [v \in {col[i] : i \in DOMAIN col} |-> Cardinality({i \in DOMAIN col : col[i] = v})]

\* leads_by_status = {s: c for (s, c) in status_rows}
leads_by_status(c) == GroupCount([i \in lead_q(c) |-> leads[i].status])

\* s or "unknown"
SourceKey(s) == IF s = None \/ s = Some("") THEN "unknown" ELSE s[1]

\* leads_by_source = {(s or "unknown"): c for (s, c) in source_rows}: of the
\* groups that share a key, the one the store returns last stays in the dict
leads_by_source(c) ==
    LET rows == GroupCount([i \in lead_q(c) |-> leads[i].source])
        keys == {SourceKey(s) : s \in DOMAIN rows}
    IN  {[k \in keys |-> rows[kept[k]]] :
            kept \in {f \in [keys -> DOMAIN rows] : \A k \in keys : SourceKey(f[k]) = k}}

\* count of the lead_q rows among the rows `passing` the other filters
CountLeads(c, passing) == Cardinality(lead_q(c) \cap passing)

new_leads_today(c, t) == CountLeads(c, {i \in DOMAIN leads : date(leads[i].created_at) = date(t)})

new_leads_7d(c, t) == CountLeads(c, {i \in DOMAIN leads : leads[i].created_at >= t - days(7)})

new_leads_this_week(c, t) == CountLeads(c, {i \in DOMAIN leads : leads[i].created_at >= week_start(t)})

new_leads_30d(c, t) == CountLeads(c, {i \in DOMAIN leads : leads[i].created_at >= t - days(30)})

won_30d(c, t) ==
    CountLeads(c, {i \in DOMAIN leads : leads[i].status = Some("won") /\ leads[i].updated_at >= t - days(30)})

lost_30d(c, t) ==
    CountLeads(c, {i \in DOMAIN leads : leads[i].status = Some("lost") /\ leads[i].updated_at >= t - days(30)})

closed_leads_this_month(c, t) ==
    CountLeads(c, {i \in DOMAIN leads : leads[i].status = Some("won") /\ leads[i].updated_at >= month_start(t)})

\* a / b in Python: the quotient as the pair <<a, b>>, or ZeroDivisionError
ZeroDivisionError == <<"ZeroDivisionError">>

TrueDiv(a, b) == IF b = 0 THEN ZeroDivisionError ELSE <<a, b>>

\* the float 0.0
Zero == <<0, 1>>

\* win_rate_30d = (won_30d / denom) if denom else 0.0
win_rate_30d(won, lost) ==
    IF won + lost # 0 THEN TrueDiv(won, won + lost) ELSE Zero

\* the average guarded by the numerator instead of the denominator
avg_guarded_by_count(act_count_30d, total_leads) ==
    IF act_count_30d # 0 THEN TrueDiv(act_count_30d, total_leads) ELSE Zero

\* avg_activities_per_lead_30d = (act_count_30d / total_leads) if total_leads else 0.0
avg_activities_per_lead_30d(act_count_30d, total_leads) ==
    IF total_leads # 0 THEN TrueDiv(act_count_30d, total_leads) ELSE Zero

\* the first n elements of a sequence: .limit(n)
Limit(o, n) == SubSeq(o, 1, Min(n, Len(o)))

\* recent_activities: act_q.order_by(activity_date.desc()).limit(10), as ids
recent_activities(c) ==
    {Limit(o, 10) :
        o \in {q \in [1..Cardinality(act_q(c)) -> act_q(c)] :
                 /\ \A i, j \in DOMAIN q : i # j => q[i] # q[j]
                 /\ \A i, j \in DOMAIN q :
                       i < j => activities[q[i]].activity_date >= activities[q[j]].activity_date}}

\* the act_q rows inside the 30-day window
act_30d(c, t) == {a \in act_q(c) : activities[a].activity_date >= t - days(30)}

activities_by_type_30d(c, t) ==
    GroupCount([a \in act_30d(c, t) |-> activities[a].activity_type])

\* week_counts: date of the Monday -> leads created in that week, from start_8w on
week_counts(c, t) ==
    GroupCount([i \in {j \in lead_q(c) : leads[j].created_at >= t - days(7 * 7)} |->
                   date(week_start(leads[i].created_at))])

\* for i in range(8): the date of start_8w + i weeks, and its count in counts
weeks_from(counts, t) ==
    [n \in 1..8 |->
        LET w_key == date(t - days(7 * 7) + days(7 * (n - 1)))
        IN  [week_start |-> w_key,
             count |-> IF w_key \in DOMAIN counts THEN counts[w_key] ELSE 0]]

\* weeks_list with the first entry left out
weeks_list_from_second(c, t) ==
    [n \in 1..7 |->
        LET w_key == date(t - days(7 * 7) + days(7 * n))
        IN  [week_start |-> w_key,
             count |-> IF w_key \in DOMAIN week_counts(c, t)
                       THEN week_counts(c, t)[w_key] ELSE 0]]

\* weeks_list, built from the rows of the weekly query
weeks_list(c, t) == weeks_from(week_counts(c, t), t)

\* recent_leads: lead_q.order_by(created_at.desc()).limit(5), reduced
recent_leads(c) ==
    {[n \in DOMAIN Limit(o, 5) |->
        [id |-> o[n], status |-> leads[o[n]].status,
         source |-> SourceKey(leads[o[n]].source),
         created_at |-> leads[o[n]].created_at]] : o \in Orderings(lead_q(c))}

\* dashboard: every payload the handler may return for caller c at instant t,
\* all its queries reading one state of the store
dashboard(c, t) ==
    LET win == win_rate_30d(won_30d(c, t), lost_30d(c, t))
        avg == avg_activities_per_lead_30d(Cardinality(act_30d(c, t)), Cardinality(lead_q(c)))
    IN  IF ZeroDivisionError \in {win, avg}
        THEN {[code |-> 500]}
        ELSE {[code |-> 200,
               total_leads |-> Cardinality(lead_q(c)),
               total_activities |-> Cardinality(act_q(c)),
               leads_by_status |-> leads_by_status(c),
               recent_activities |-> ra,
               leads_by_source |-> bs,
               new_leads_today |-> new_leads_today(c, t),
               new_leads_this_week |-> new_leads_this_week(c, t),
               new_leads_7d |-> new_leads_7d(c, t),
               new_leads_30d |-> new_leads_30d(c, t),
               won_30d |-> won_30d(c, t),
               lost_30d |-> lost_30d(c, t),
               closed_leads_this_month |-> closed_leads_this_month(c, t),
               win_rate_30d |-> win,
               activities_by_type_30d |-> activities_by_type_30d(c, t),
               avg_activities_per_lead_30d |-> avg,
               leads_trend_8w |-> weeks_list(c, t),
               recent_leads |-> rl] :
                 ra \in recent_activities(c), bs \in leads_by_source(c), rl \in recent_leads(c)}

\* the handler's queries, in the order it sends them to the database
DashQueries ==
    << "total_leads", "total_activities", "leads_by_status", "leads_by_source",
       "new_leads_today", "new_leads_7d", "new_leads_this_week", "new_leads_30d",
       "won_30d", "lost_30d", "closed_leads_this_month", "recent_activities",
       "activities_by_type_30d", "act_count_30d", "week_counts", "recent_leads" >>

\* the results query q of caller c may give on the present rows, the instant
\* being t: every statement of the session reads what is committed when it runs
Query(q, c, t) ==
    CASE q = "total_leads" -> {Cardinality(lead_q(c))}
      [] q = "total_activities" -> {Cardinality(act_q(c))}
      [] q = "leads_by_status" -> {leads_by_status(c)}
      [] q = "leads_by_source" -> leads_by_source(c)
      [] q = "new_leads_today" -> {new_leads_today(c, t)}
      [] q = "new_leads_7d" -> {new_leads_7d(c, t)}
      [] q = "new_leads_this_week" -> {new_leads_this_week(c, t)}
      [] q = "new_leads_30d" -> {new_leads_30d(c, t)}
      [] q = "won_30d" -> {won_30d(c, t)}
      [] q = "lost_30d" -> {lost_30d(c, t)}
      [] q = "closed_leads_this_month" -> {closed_leads_this_month(c, t)}
      [] q = "recent_activities" -> recent_activities(c)
      [] q = "activities_by_type_30d" -> {activities_by_type_30d(c, t)}
      [] q = "act_count_30d" -> {Cardinality(act_30d(c, t))}
      [] q = "week_counts" -> {week_counts(c, t)}
      [] q = "recent_leads" -> recent_leads(c)

\* the payload the handler builds from the results got of its queries
Payload(got, t) ==
    LET win == win_rate_30d(got.won_30d, got.lost_30d)
        avg == avg_activities_per_lead_30d(got.act_count_30d, got.total_leads)
    IN  IF ZeroDivisionError \in {win, avg}
        THEN [code |-> 500]
        ELSE [code |-> 200,
              total_leads |-> got.total_leads,
              total_activities |-> got.total_activities,
              leads_by_status |-> got.leads_by_status,
              recent_activities |-> got.recent_activities,
              leads_by_source |-> got.leads_by_source,
              new_leads_today |-> got.new_leads_today,
              new_leads_this_week |-> got.new_leads_this_week,
              new_leads_7d |-> got.new_leads_7d,
              new_leads_30d |-> got.new_leads_30d,
              won_30d |-> got.won_30d,
              lost_30d |-> got.lost_30d,
              closed_leads_this_month |-> got.closed_leads_this_month,
              win_rate_30d |-> win,
              activities_by_type_30d |-> got.activities_by_type_30d,
              avg_activities_per_lead_30d |-> avg,
              leads_trend_8w |-> weeks_from(got.week_counts, t),
              recent_leads |-> got.recent_leads]

----------------------------------------------------------------------------
(* auth.py, routers/users.py: the bearer token and the current user *)

\* the exceptions of jwt.decode: bad signature, expired, malformed claims
JWTError == [error |-> "JWTError"]

\* int(None)
TypeError == <<"TypeError", "int() argument must be a string or a number">>

\* the text is a decimal literal: an optional sign, then digits
IsLiteral(s) ==
    LET d == IF s # <<>> /\ Head(s) \in {"+", "-"} THEN Tail(s) ELSE s
    IN  d # <<>> /\ \A i \in 1..Len(d) : d[i] \in Digits

\* the value of a decimal literal
LiteralValue(s) ==
    IF Head(s) = "-" THEN 0 - DecimalValue(Tail(s))
    ELSE IF Head(s) = "+" THEN DecimalValue(Tail(s))
    ELSE DecimalValue(s)

\* int(payload.get("sub")): blanks around the literal are skipped
int_sub(sub) ==
    IF sub = None THEN TypeError
    ELSE IF IsLiteral(strip(sub[1])) THEN Some(LiteralValue(strip(sub[1])))
    ELSE ValueError

\* decode_token at instant t: the claims, when the signature verifies and
\* exp is not in the past
decode_token(token, t) ==
    IF token.sig # "valid" \/ token.exp < t THEN JWTError
    ELSE [type |-> token.type, sub |-> token.sub]

\* get_current_user accepting any verified token, whatever its type
get_current_user_any_type(token) ==
    LET payload == decode_token(token, now)
    IN  IF payload = JWTError \/ int_sub(payload.sub) \in {TypeError, ValueError}
        THEN [code |-> 401, detail |-> "Invalid or expired token. Please log in again."]
        ELSE IF int_sub(payload.sub)[1] \notin DOMAIN users
        THEN [code |-> 404, detail |-> "User not found."]
        ELSE [code |-> 200, user |-> int_sub(payload.sub)[1]]

\* get_current_user: the account of the token, or the error raised; the 401
\* raised for the type is caught by `except Exception` like the others
get_current_user(token) ==
    LET payload == decode_token(token, now)
    IN  IF payload = JWTError
        THEN [code |-> 401, detail |-> "Invalid or expired token. Please log in again."]
        ELSE IF payload.type # Some("access")
        THEN [code |-> 401, detail |-> "Invalid or expired token. Please log in again."]
        ELSE IF int_sub(payload.sub) \in {TypeError, ValueError}
        THEN [code |-> 401, detail |-> "Invalid or expired token. Please log in again."]
        ELSE IF int_sub(payload.sub)[1] \notin DOMAIN users
        THEN [code |-> 404, detail |-> "User not found."]
        ELSE [code |-> 200, user |-> int_sub(payload.sub)[1]]

\* str.lower() of one character, for the letters of the addresses tried
LowerChar(ch) ==
    CASE ch = "A" -> "a" [] ch = "C" -> "c" [] ch = "R" -> "r" [] OTHER -> ch

\* str.lower()
lower(s) == [i \in 1..Len(s) |-> LowerChar(s[i])]

\* the position of the @ of an address
AtSign(e) == CHOOSE i \in 1..Len(e) : e[i] = "@"

\* EmailStr: the validated address, its domain in lower case and its local
\* part as it was sent
EmailStr(e) == [i \in 1..Len(e) |-> IF i > AtSign(e) THEN LowerChar(e[i]) ELSE e[i]]

\* hash_password, verify_password: the argon2 hash of pw verifies pw only
hash_password(pw) == <<"argon2", pw>>

verify_password(pw, pw_hash) == pw_hash = hash_password(pw)

\* the rows of the table us with this email
UsersByEmail(us, e) == {i \in 1..Len(us) : us[i].email = e}

\* register: the status code and the users table after it
register(us, user) ==
    IF UsersByEmail(us, EmailStr(user.email)) # {}
    THEN [code |-> 400, users |-> us]
    ELSE [code |-> 201,
          users |-> Append(us, [email |-> EmailStr(user.email),
                                password_hash |-> hash_password(user.password),
                                is_admin |-> FALSE])]

\* login: 200 with a token for the account, or 401
login(us, username, password) ==
    LET found == UsersByEmail(us, lower(strip(username)))
    IN  IF found = {} THEN [code |-> 401]
        ELSE LET u == CHOOSE i \in found : TRUE
             IN  IF verify_password(password, us[u].password_hash)
                 THEN [code |-> 200, sub |-> u]
                 ELSE [code |-> 401]

\* _bootstrap_admin_once run by a single process with ADMIN_EMAIL and
\* ADMIN_PASSWORD set: the users table after it
bootstrap_admin(us, admin_email, admin_password) ==
    IF UsersByEmail(us, admin_email) # {} THEN us
    ELSE Append(us, [email |-> admin_email,
                     password_hash |-> hash_password(admin_password),
                     is_admin |-> TRUE])

----------------------------------------------------------------------------
(* The requests as steps of the service *)

Last(op, code) == [op |-> op, code |-> code]

NoRequest == Last("none", 0)

\* no dashboard request is in flight
NoDashboard == [pc |-> "idle"]

\* no update request is between its lookup and its commit
NoUpdate == [pc |-> "idle"]

CreateLead(c, payload) ==
    /\ Len(leads) < MaxLeads
    /\ leads' = create_lead(c, payload).leads
    /\ last' = Last("create_lead", create_lead(c, payload).resp.code)
    /\ UNCHANGED <<users, activities, now, bootVars, dash, upd>>
ListLeads(c, f, page, page_size) ==
    /\ \E r \in list_leads(c, f, page, page_size) :
          last' = Last("list_leads", r.code)
    /\ UNCHANGED <<storeVars, bootVars, dash, upd>>
ExportLeads(c, f) ==
    /\ \E r \in export_leads_csv(c, f) : last' = Last("export_leads_csv", r.code)
    /\ UNCHANGED <<storeVars, bootVars, dash, upd>>
GetLead(c, lead_id) ==
    /\ last' = Last("get_lead", get_lead(c, lead_id).code)
    /\ UNCHANGED <<storeVars, bootVars, dash, upd>>
UpdateLead(c, lead_id, payload) ==
    /\ leads' = update_lead(c, lead_id, payload).leads
    /\ last' = Last("update_lead", update_lead(c, lead_id, payload).resp.code)
    /\ UNCHANGED <<users, activities, now, bootVars, dash, upd>>
DeleteLead(c, lead_id) ==
    /\ leads' = delete_lead(c, lead_id).leads
    /\ last' = Last("delete_lead", delete_lead(c, lead_id).resp.code)
    /\ UNCHANGED <<users, activities, now, bootVars, dash, upd>>
ListActivities(c, lead_id) ==
    /\ \E r \in list_activities(c, lead_id) :
          last' = Last("list_activities", r.code)
    /\ UNCHANGED <<storeVars, bootVars, dash, upd>>
AddActivity(c, lead_id, payload) ==
    /\ Len(activities) < MaxActs \/ add_activity(c, lead_id, payload).resp.code # 201
    /\ activities' = add_activity(c, lead_id, payload).activities
    /\ last' = Last("add_activity", add_activity(c, lead_id, payload).resp.code)
    /\ UNCHANGED <<users, leads, now, bootVars, dash, upd>>
\* GET /dashboard with every query reading the same state of the store
Dashboard(c) ==
    /\ \E s \in dashboard(c, now) : last' = Last("dashboard", s.code)
    /\ UNCHANGED <<storeVars, bootVars, dash, upd>>
\* POST /users/register, POST /users/login and the startup of one process
Register(user) ==
    /\ Len(users) < MaxUsers \/ register(users, user).code # 201
    /\ users' = register(users, user).users
    /\ last' = Last("register", register(users, user).code)
    /\ UNCHANGED <<leads, activities, now, bootVars, dash, upd>>
Login(username, password) ==
    /\ last' = Last("login", login(users, username, password).code)
    /\ UNCHANGED <<storeVars, bootVars, dash, upd>>
BootstrapAdmin(admin_email, admin_password) ==
    /\ Len(users) < MaxUsers \/ UsersByEmail(users, admin_email) # {}
    /\ users' = bootstrap_admin(users, admin_email, admin_password)
    /\ last' = Last("on_startup", 0)
    /\ UNCHANGED <<leads, activities, now, bootVars, dash, upd>>

\* the dependency get_current_user raised: the handler is not called
Rejected(token) ==
    /\ get_current_user(token).code # 200
    /\ last' = Last("get_current_user", get_current_user(token).code)
    /\ UNCHANGED <<storeVars, bootVars, dash, upd>>
\* the requests as they arrive, with their bearer token
CreateLeadAs(token, payload) ==
    \/ Rejected(token)
    \/ /\ get_current_user(token).code = 200
       /\ CreateLead(get_current_user(token).user, payload)
UpdateLeadAs(token, lead_id, payload) ==
    \/ Rejected(token)
    \/ /\ get_current_user(token).code = 200
       /\ UpdateLead(get_current_user(token).user, lead_id, payload)
DeleteLeadAs(token, lead_id) ==
    \/ Rejected(token)
    \/ /\ get_current_user(token).code = 200
       /\ DeleteLead(get_current_user(token).user, lead_id)
AddActivityAs(token, lead_id, payload) ==
    \/ Rejected(token)
    \/ /\ get_current_user(token).code = 200
       /\ AddActivity(get_current_user(token).user, lead_id, payload)

\* PUT /leads/{lead_id} beside the other requests: the lookup through
\* _scoped_query raises 404, or loads the row into the session
UpdBegin(c, lead_id, payload) ==
    /\ upd.pc = "idle"
    /\ IF lead_id \in _scoped_query(c)
       THEN /\ upd' = [pc |-> "loaded", user |-> c, lead_id |-> lead_id,
                       payload |-> payload, row |-> leads[lead_id]]
            /\ last' = last
       ELSE /\ upd' = upd
            /\ last' = Last("update_lead", 404)
    /\ UNCHANGED <<storeVars, bootVars, dash>>
\* setattr for the fields sent, then db.commit(): is_active = NULL fails the
\* commit and is rolled back
UpdCommit ==
    /\ upd.pc = "loaded"
    /\ IF "is_active" \in DOMAIN upd.payload /\ upd.payload["is_active"] = None
       THEN /\ leads' = leads
            /\ last' = Last("update_lead", 500)
       ELSE /\ leads' = [leads EXCEPT ![upd.lead_id] =
                            update_flush(@, upd.row, upd.payload)]
            /\ last' = Last("update_lead", 200)
    /\ upd' = NoUpdate
    /\ UNCHANGED <<users, activities, now, bootVars, dash>>

\* GET /dashboard, statement by statement, beside the other requests:
\* the handler is entered and reads the clock
DashBegin(c) ==
    /\ dash.pc \in {"idle", "returned"}
    /\ dash' = [pc |-> "query", n |-> 1, user |-> c, now |-> now, got |-> <<>>]
    /\ UNCHANGED <<storeVars, last, bootVars, upd>>
\* its next query runs on the rows committed by now
DashQuery ==
    /\ dash.pc = "query"
    /\ dash.n <= Len(DashQueries)
    /\ \E v \in Query(DashQueries[dash.n], dash.user, dash.now) :
          dash' = [dash EXCEPT !.n = @ + 1, !.got = @ @@ (DashQueries[dash.n] :> v)]
    /\ UNCHANGED <<storeVars, last, bootVars, upd>>
\* it builds the payload and answers
DashReturn ==
    /\ dash.pc = "query"
    /\ dash.n = Len(DashQueries) + 1
    /\ dash' = [pc |-> "returned", user |-> dash.user, now |-> dash.now,
                payload |-> Payload(dash.got, dash.now)]
    /\ last' = Last("dashboard", Payload(dash.got, dash.now).code)
    /\ UNCHANGED <<storeVars, bootVars, upd>>
----------------------------------------------------------------------------
(* The service with the startup routine switched off *)

InitUsers ==
    << [email |-> "ann@crm", is_admin |-> FALSE],
       [email |-> "bob@crm", is_admin |-> FALSE],
       [email |-> "root@crm", is_admin |-> TRUE] >>

\* CREATE_ADMIN_ON_STARTUP is off: every worker's startup is over
BootOff ==
    /\ pc = [w \in 1..NWorkers |-> "disabled"]
    /\ lock = 0
    /\ pending = {}

Init ==
    /\ users = InitUsers
    /\ leads = <<>>
    /\ activities = <<>>
    /\ now = 0
    /\ last = NoRequest
    /\ dash = NoDashboard
    /\ upd = NoUpdate
    /\ BootOff

Next ==
    \/ \E c \in Callers, p \in LeadCreatePayloads : CreateLead(c, p)
    \/ \E c \in Callers, f \in LeadFilters \cup {NoFilters}, page \in 1..MaxPage, s \in PageSizes :
          ListLeads(c, f, page, s)
    \/ \E c \in Callers, f \in LeadFilters \cup {NoFilters} : ExportLeads(c, f)
    \/ \E c \in Callers, id \in LeadIds : GetLead(c, id)
    \/ \E c \in Callers, id \in LeadIds, p \in LeadUpdatePayloads : UpdateLead(c, id, p)
    \/ \E c \in Callers, id \in LeadIds : DeleteLead(c, id)
    \/ \E c \in Callers, id \in LeadIds : ListActivities(c, id)

Spec == Init /\ [][Next]_vars

----------------------------------------------------------------------------
(* The activity handlers, over every small leads table the service can hold *)

\* lead i was created by member 1 or 2 in turn, and may have been soft-deleted
InitActLeads ==
    {t \in [1..MaxLeads ->
              [user_id : {1, 2}, is_active : BOOLEAN, status : {Some("new")},
               source : {None}, budget_min : {None}, budget_max : {None},
               created_at : {0}, updated_at : {0}]] :
        \A i \in 1..MaxLeads : t[i].user_id = 2 - (i % 2)}

InitAct ==
    /\ users = InitUsers
    /\ leads \in InitActLeads
    /\ activities = <<>>
    /\ now = 0
    /\ last = NoRequest
    /\ dash = NoDashboard
    /\ upd = NoUpdate
    /\ BootOff

NextAct ==
    \/ \E c \in Callers, id \in LeadIds, p \in AddPayloads : AddActivity(c, id, p)
    \/ \E c \in Callers, id \in LeadIds : ListActivities(c, id)
    \/ \E c \in Callers, id \in LeadIds : DeleteLead(c, id)

SpecAct == InitAct /\ [][NextAct]_vars

----------------------------------------------------------------------------
(* update_lead, on leads written some days before the request *)

\* LeadUpdate bodies: nothing sent, a value, the stored value, an explicit null
UpdPayloads ==
    {<<>>,
     [status |-> Some("won")], [status |-> Some("new")], [status |-> None],
     [source |-> Some("web"), status |-> Some("won")],
     [budget_min |-> Some(5)],
     [is_active |-> Some(FALSE)], [is_active |-> None]}

\* lead i was created by member 1 or 2 in turn on day 50 and not written since
InitUpdLeads ==
    {t \in [1..MaxLeads ->
              [user_id : {1, 2}, is_active : {TRUE}, status : {Some("new")},
               source : {None, Some("web")}, budget_min : {None}, budget_max : {None},
               created_at : {days(50)}, updated_at : {days(50)}]] :
        \A i \in 1..MaxLeads : t[i].user_id = 2 - (i % 2)}

InitUpd ==
    /\ users = InitUsers
    /\ leads \in InitUpdLeads
    /\ activities = << [lead_id |-> 1, user_id |-> 1, activity_type |-> "note",
                        duration |-> None, activity_date |-> days(50),
                        created_at |-> days(50)] >>
    /\ now = days(63)
    /\ last = NoRequest
    /\ dash = NoDashboard
    /\ upd = NoUpdate
    /\ BootOff

NextUpd ==
    \/ \E c \in Callers, id \in LeadIds, p \in UpdPayloads : UpdateLead(c, id, p)
    \/ \E c \in Callers, id \in LeadIds : GetLead(c, id)

SpecUpd == InitUpd /\ [][NextUpd]_vars

----------------------------------------------------------------------------
(* list_leads and export_leads_csv, over leads with budgets and with equal *)
(* and distinct creation times                                             *)

\* budget filter texts: absent, empty, blank, numbers (bare, padded, signed),
\* a letter, a digit that is not decimal
ListBudgetTexts ==
    {None, Some(<<>>), Some(<<" ">>), Some(<<"5">>), Some(<<" ", "5", " ">>),
     Some(<<"-", "5">>), Some(<<"a">>), Some(<<"²">>)}

\* requests with one budget filter
OneBudgetFilters ==
    {[NoFilters EXCEPT !.min_budget = t] : t \in ListBudgetTexts}
    \cup {[NoFilters EXCEPT !.max_budget = t] : t \in {Some(<<"5">>), Some(<<"a">>)}}

\* the requests list and export are tried with
ListFilters ==
    OneBudgetFilters
    \cup {[NoFilters EXCEPT !.min_budget = Some(<<"5">>), !.max_budget = Some(<<"5">>)],
          [NoFilters EXCEPT !.min_budget = Some(<<"a">>), !.max_budget = Some(<<"²">>)],
          [NoFilters EXCEPT !.status_filter = Some("new"), !.min_budget = Some(<<"a">>)]}

\* budget_min and budget_max of a row
BudgetProfiles == {<<None, None>>, <<Some(5), Some(5)>>, <<Some(4), Some(6)>>}

\* lead i was created by member 1 or 2 in turn, at tick 0 or 1; lead 1 may
\* have been soft-deleted
InitListLeads ==
    {t \in [1..MaxLeads ->
              {[user_id |-> o, is_active |-> a, status |-> Some("new"), source |-> None,
                budget_min |-> b[1], budget_max |-> b[2], created_at |-> at,
                updated_at |-> at] :
                  o \in {1, 2}, a \in BOOLEAN, b \in BudgetProfiles, at \in {0, 1}}] :
        /\ \A i \in 1..MaxLeads : t[i].user_id = 2 - (i % 2)
        /\ \A i \in 2..MaxLeads : t[i].is_active
        /\ \A i, j \in 1..MaxLeads : i < j => t[i].created_at <= t[j].created_at}

InitList ==
    /\ users = InitUsers
    /\ leads \in InitListLeads
    /\ activities = <<>>
    /\ now = 1
    /\ last = NoRequest
    /\ dash = NoDashboard
    /\ upd = NoUpdate
    /\ BootOff

NextList ==
    \/ \E c \in Callers, f \in ListFilters, page \in 1..MaxPage, size \in PageSizes :
          ListLeads(c, f, page, size)
    \/ \E c \in Callers, f \in ListFilters : ExportLeads(c, f)

SpecList == InitList /\ [][NextList]_vars

----------------------------------------------------------------------------
(* The dashboard beside the requests that write leads and activities *)

\* lead i was created by member 1 or 2 in turn on day 50, as lost
InitDashLeads ==
    [i \in 1..(MaxLeads - 1) |->
        [user_id |-> 2 - (i % 2), is_active |-> TRUE, status |-> Some("lost"),
         source |-> None, budget_min |-> None, budget_max |-> None,
         created_at |-> days(50), updated_at |-> days(50)]]

\* the LeadCreate body of this service's create requests
DashCreatePayload ==
    [status |-> Some("new"), source |-> None, budget_min |-> None, budget_max |-> None]

\* Monday 2024-03-04 00:00
InitDash ==
    /\ users = InitUsers
    /\ leads = InitDashLeads
    /\ activities = <<>>
    /\ now = days(63)
    /\ last = NoRequest
    /\ dash = NoDashboard
    /\ upd = NoUpdate
    /\ BootOff

NextDash ==
    \/ \E c \in Callers : CreateLead(c, DashCreatePayload)
    \/ \E c \in Callers, id \in 1..Len(leads) : UpdateLead(c, id, [status |-> Some("won")])
    \/ \E c \in Callers, id \in 1..Len(leads) : DeleteLead(c, id)
    \/ \E id \in 1..Len(leads) :
          AddActivity(3, id, [activity_type |-> "note", duration |-> None])
    \/ \E c \in Callers : Dashboard(c)

SpecDash == InitDash /\ [][NextDash]_vars

----------------------------------------------------------------------------
(* A dashboard request running beside requests that write leads *)

NextConc ==
    \/ \E c \in Callers : DashBegin(c)
    \/ DashQuery
    \/ DashReturn
    \/ CreateLead(1, DashCreatePayload)
    \/ \E id \in 1..Len(leads) : UpdateLead(1, id, [status |-> Some("won")])
    \/ \E id \in 1..Len(leads) : DeleteLead(1, id)

SpecConc == InitDash /\ [][NextConc]_vars

----------------------------------------------------------------------------
(* Accounts: registration, login and the bootstrap of the admin *)

\* addresses as texts: a@c and r@c in several spellings, one with blanks
\* around it for the login form
EmailTexts ==
    {<<"a", "@", "c">>, <<"A", "@", "c">>, <<"a", "@", "C">>,
     <<"r", "@", "c">>, <<"R", "@", "c">>}

Passwords == {"p", "q"}

\* UserCreate bodies
RegisterBodies == [email : EmailTexts, password : Passwords]

\* an empty users table
InitAccounts ==
    /\ users = <<>>
    /\ leads = <<>>
    /\ activities = <<>>
    /\ now = 0
    /\ last = NoRequest
    /\ dash = NoDashboard
    /\ upd = NoUpdate
    /\ BootOff

NextAccounts ==
    \/ \E user \in RegisterBodies : Register(user)
    \/ \E e \in EmailTexts \cup {<<" ", "a", "@", "c", " ">>}, pw \in Passwords :
          Login(e, pw)
    \/ \E e \in {<<"r", "@", "c">>, <<"R", "@", "c">>} : BootstrapAdmin(e, "p")

SpecAccounts == InitAccounts /\ [][NextAccounts]_vars

----------------------------------------------------------------------------
(* Requests carrying bearer tokens *)

\* the sub claims tried: absent, three accounts' ids, ids of no account, and
\* texts that are not integers
SubTexts ==
    {None, Some(<<"1">>), Some(<<"3">>), Some(<<" ", "2">>), Some(<<"9">>),
     Some(<<"-", "1">>), Some(<<"a">>), Some(<<>>)}

\* tokens: signed with the secret or not, expiring a day before or after
\* the instant of InitDash, of type access, of another type or of none
Tokens ==
    [sig : {"valid", "forged"}, exp : {days(62), days(64)},
     type : {Some("access"), Some("refresh"), None}, sub : SubTexts]

\* the tokens requests arrive with: those login issues to member 1 and to
\* the admin, and the tokens that differ from one of these in one claim, in
\* the expiry or in the signature
RequestTokens ==
    {token \in Tokens :
        Cardinality({k \in DOMAIN token :
            \/ k = "sig" /\ token[k] # "valid"
            \/ k = "exp" /\ token[k] # days(64)
            \/ k = "type" /\ token[k] # Some("access")
            \/ k = "sub" /\ token[k] \notin {Some(<<"1">>), Some(<<"3">>)}}) <= 1}

NextAuth ==
    \/ \E token \in RequestTokens : CreateLeadAs(token, DashCreatePayload)
    \/ \E token \in RequestTokens, id \in 1..Len(leads) :
          UpdateLeadAs(token, id, [status |-> Some("won")])
    \/ \E token \in RequestTokens, id \in 1..Len(leads) : DeleteLeadAs(token, id)
    \/ \E token \in RequestTokens :
          AddActivityAs(token, 1, [activity_type |-> "note", duration |-> None])

SpecAuth == InitDash /\ [][NextAuth]_vars

----------------------------------------------------------------------------
(* An update running beside soft deletes and other updates *)

\* the LeadUpdate bodies of the update in flight
RacePayloads ==
    {[status |-> Some("won")], [is_active |-> Some(TRUE)], [is_active |-> None],
     [status |-> Some("lost"), source |-> Some("web")]}

NextRace ==
    \/ \E c \in Callers, id \in LeadIds, p \in RacePayloads : UpdBegin(c, id, p)
    \/ UpdCommit
    \/ \E c \in Callers, id \in 1..Len(leads) : DeleteLead(c, id)
    \/ \E c \in Callers, id \in 1..Len(leads) :
          UpdateLead(c, id, [source |-> Some("web")])

SpecRace == InitDash /\ [][NextRace]_vars

----------------------------------------------------------------------------
(* The writes to a lead: its owner and its is_active flag *)

\* JSON bodies sent to POST /leads: the second one carries keys that
\* LeadCreate does not declare
LeadCreateBodies ==
    {<<>>, [status |-> Some("won"), user_id |-> Some(2), is_active |-> Some(FALSE)]}

\* LeadCreate's fields of the model and their defaults
LeadCreateDefaults ==
    [status |-> Some("new"), source |-> None, budget_min |-> None, budget_max |-> None]

\* the body parsed as LeadCreate: undeclared keys are ignored, absent fields
\* take their defaults
LeadCreate(body) ==
    [k \in DOMAIN LeadCreateDefaults |->
        IF k \in DOMAIN body THEN body[k] ELSE LeadCreateDefaults[k]]

NextOwn ==
    \/ \E c \in Callers, body \in LeadCreateBodies : CreateLead(c, LeadCreate(body))
    \/ \E c \in Callers, id \in LeadIds, p \in LeadUpdatePayloads : UpdateLead(c, id, p)
    \/ \E c \in Callers, id \in LeadIds : DeleteLead(c, id)
    \/ \E c \in {1, 3}, id \in 1..Len(leads) :
          AddActivity(c, id, [activity_type |-> "note", duration |-> None])

SpecOwn == InitDash /\ [][NextOwn]_vars

----------------------------------------------------------------------------
(* The dashboard as a function of the store and the instant *)

\* Monday 2024-03-04 00:00 and Wednesday 2024-03-06 12:00
TrendNow == {days(63), days(65) + 1}

\* lead i was created by member 1 or 2 in turn, 43 days or a week before the
\* Monday; it has any status and source, and may have been soft-deleted
InitTrendLeads ==
    {t \in [1..MaxLeads ->
              [user_id : {1, 2}, is_active : BOOLEAN, status : {Some("new"), None},
               source : {None, Some(""), Some("web")},
               budget_min : {None}, budget_max : {None},
               created_at : {days(20), days(56)}, updated_at : {days(20), days(56)}]] :
        \A i \in 1..MaxLeads :
            /\ t[i].user_id = 2 - (i % 2)
            /\ t[i].updated_at = t[i].created_at}

InitTrend ==
    /\ users = InitUsers
    /\ leads \in InitTrendLeads
    /\ activities = <<>>
    /\ now \in TrendNow
    /\ last = NoRequest
    /\ dash = NoDashboard
    /\ upd = NoUpdate
    /\ BootOff

NextTrend == \E c \in Callers : Dashboard(c)

SpecTrend == InitTrend /\ [][NextTrend]_vars

----------------------------------------------------------------------------
(* main.py: _bootstrap_admin_once, run by every worker as it starts.        *)
(*                                                                         *)
(* `with engine.begin() as conn` opens the worker's transaction and        *)
(* commits it when the block is left.  The Session is bound to that        *)
(* connection, which is already in a transaction, so db.commit() flushes   *)
(* the INSERT into it and the row becomes visible to the other workers     *)
(* only at the block's exit, after the finally clause has released the     *)
(* advisory lock.                                                          *)

Workers == 1..NWorkers

ADMIN_EMAIL == "root@crm"

AdminRow == [email |-> ADMIN_EMAIL, is_admin |-> TRUE]

\* the committed users rows with this email
ByEmail(e) == {u \in 1..Len(users) : users[u].email = e}

\* where a worker holds the advisory lock
Holding == {"locked", "creating", "exists_unlock", "created_unlock", "failed_unlock"}

\* how a worker's startup ended
Finished == {"disabled", "denied", "exists", "created", "failed"}

\* TryLock going on without the lock when it is denied
TryLock_unchecked(w) ==
    /\ pc[w] = "start"
    /\ lock' = (IF lock = 0 THEN w ELSE lock)
    /\ pc' = [pc EXCEPT ![w] = "locked"]
    /\ UNCHANGED <<storeVars, last, pending, dash, upd>>
\* got_lock = SELECT pg_try_advisory_lock(LOCK_KEY); not got_lock: return
TryLock(w) ==
    /\ pc[w] = "start"
    /\ IF lock = 0
       THEN lock' = w /\ pc' = [pc EXCEPT ![w] = "locked"]
       ELSE lock' = lock /\ pc' = [pc EXCEPT ![w] = "denied"]
    /\ UNCHANGED <<storeVars, last, pending, dash, upd>>
\* existing = db.query(User).filter(User.email == admin_email).first()
CheckExisting(w) ==
    /\ pc[w] = "locked"
    /\ pc' = [pc EXCEPT ![w] = IF ByEmail(ADMIN_EMAIL) # {} THEN "exists_unlock" ELSE "creating"]
    /\ UNCHANGED <<storeVars, last, lock, pending, dash, upd>>
\* db.add(user); db.commit(): the INSERT is flushed into the worker's open
\* transaction.  users.email is unique: the INSERT waits while another
\* transaction holds an uncommitted row with the email, and fails once a
\* committed one exists.
FlushInsert(w) ==
    /\ pc[w] = "creating"
    /\ pending \ {w} = {}
    /\ IF ByEmail(ADMIN_EMAIL) # {}
       THEN pending' = pending /\ pc' = [pc EXCEPT ![w] = "failed_unlock"]
       ELSE pending' = pending \cup {w} /\ pc' = [pc EXCEPT ![w] = "created_unlock"]
    /\ UNCHANGED <<storeVars, last, lock, dash, upd>>
\* Unlock without the finally: the raise leaves with the lock held
Unlock_not_on_raise(w) ==
    /\ pc[w] \in {"exists_unlock", "created_unlock", "failed_unlock"}
    /\ lock' = (IF lock = w /\ pc[w] # "failed_unlock" THEN 0 ELSE lock)
    /\ pc' = [pc EXCEPT ![w] = CASE pc[w] = "exists_unlock" -> "exists"
                                 [] pc[w] = "created_unlock" -> "committing"
                                 [] pc[w] = "failed_unlock" -> "failed"]
    /\ UNCHANGED <<storeVars, last, pending, dash, upd>>
\* finally: SELECT pg_advisory_unlock(LOCK_KEY), on the return and on the raise
Unlock(w) ==
    /\ pc[w] \in {"exists_unlock", "created_unlock", "failed_unlock"}
    /\ lock' = IF lock = w THEN 0 ELSE lock
    /\ pc' = [pc EXCEPT ![w] = CASE pc[w] = "exists_unlock" -> "exists"
                                 [] pc[w] = "created_unlock" -> "committing"
                                 [] pc[w] = "failed_unlock" -> "failed"]
    /\ UNCHANGED <<storeVars, last, pending, dash, upd>>
\* the with block is left: engine.begin() commits the worker's transaction
EndTransaction(w) ==
    /\ pc[w] = "committing"
    /\ users' = Append(users, AdminRow)
    /\ pending' = pending \ {w}
    /\ pc' = [pc EXCEPT ![w] = "created"]
    /\ UNCHANGED <<leads, activities, now, last, lock, dash, upd>>
\* CREATE_ADMIN_ON_STARTUP is on, ADMIN_EMAIL and ADMIN_PASSWORD are set, and
\* the store holds the two members and no account with ADMIN_EMAIL
InitBoot ==
    /\ users = SubSeq(InitUsers, 1, 2)
    /\ leads = <<>>
    /\ activities = <<>>
    /\ now = 0
    /\ last = NoRequest
    /\ dash = NoDashboard
    /\ upd = NoUpdate
    /\ pc = [w \in Workers |-> "start"]
    /\ lock = 0
    /\ pending = {}

NextBoot ==
    \/ \E w \in Workers : TryLock(w)
    \/ \E w \in Workers : CheckExisting(w)
    \/ \E w \in Workers : FlushInsert(w)
    \/ \E w \in Workers : Unlock(w)
    \/ \E w \in Workers : EndTransaction(w)

SpecBoot == InitBoot /\ [][NextBoot]_vars

----------------------------------------------------------------------------
(* The claims *)

Range(q) == {q[i] : i \in 1..Len(q)}

AllFilters == LeadFilters \cup {NoFilters}

\* the lead is one the caller may see: it exists, is active, and is the
\* caller's own unless the caller is an admin
Visible(c, id) ==
    /\ id \in 1..Len(leads)
    /\ leads[id].is_active
    /\ users[c].is_admin \/ leads[id].user_id = c

NotFoundLead == Resp(404, "Lead not found", <<>>, 0)

\* C1: a non-admin caller gets NotFound from get on every lead owned by
\* another account, whether the lead is active or soft-deleted.
C1_GetScoped ==
    \A c \in Callers, id \in 1..Len(leads) :
        (~users[c].is_admin /\ leads[id].user_id # c) => get_lead(c, id) = NotFoundLead

\* a get answered 404 while member 1 owns an active and a soft-deleted lead
C1_Witness ==
    /\ last = Last("get_lead", 404)
    /\ \E i, j \in 1..Len(leads) :
          /\ leads[i].user_id = 1 /\ leads[i].is_active
          /\ leads[j].user_id = 1 /\ ~leads[j].is_active

\* C2: every lead list returns is active and, for a non-admin caller, the
\* caller's own; an admin's unfiltered total is the number of active leads.
C2_ListScoped ==
    \A c \in Callers, f \in AllFilters, page \in 1..MaxPage, size \in PageSizes :
        \A r \in list_leads(c, f, page, size) :
            r.code = 200 =>
                /\ \A id \in Range(r.body) :
                      /\ id \in 1..Len(leads)
                      /\ leads[id].is_active
                      /\ ~users[c].is_admin => leads[id].user_id = c
                /\ (users[c].is_admin /\ f = NoFilters) =>
                      r.total = Cardinality({i \in 1..Len(leads) : leads[i].is_active})

\* a list answered 200 over an active lead of member 1, updated to won, and a
\* soft-deleted lead of member 2
C2_Witness ==
    /\ last = Last("list_leads", 200)
    /\ \E i, j \in 1..Len(leads) :
          /\ leads[i].user_id = 1 /\ leads[i].is_active /\ leads[i].status = Some("won")
          /\ leads[j].user_id = 2 /\ ~leads[j].is_active

\* a soft-deleted lead is returned to nobody
C3_Hidden ==
    \A id \in 1..Len(leads) :
        ~leads[id].is_active =>
            \A c \in Callers :
                /\ get_lead(c, id).code = 404
                /\ \A f \in AllFilters, page \in 1..MaxPage, size \in PageSizes :
                      \A r \in list_leads(c, f, page, size) : id \notin Range(r.body)
                /\ \A f \in AllFilters :
                      \A r \in export_leads_csv(c, f) : id \notin Range(r.body)
                /\ \A r \in list_activities(c, id) : r.code # 200

\* no step makes a soft-deleted lead active again
C3_StaysDeleted ==
    \A id \in 1..Len(leads) :
        ~leads[id].is_active => (id \in 1..Len(leads') /\ ~leads'[id].is_active)

\* C3: once a lead is soft-deleted, no list, get, export or listForLead by
\* any caller returns it, and no later operation makes it active again.
C3_SoftDeleteIsFinal == [](C3_Hidden) /\ [][C3_StaysDeleted]_vars

\* an update was refused with 404 while every lead of the full table is soft-deleted
C3_Witness ==
    /\ last = Last("update_lead", 404)
    /\ Len(leads) = MaxLeads
    /\ \A id \in 1..Len(leads) : ~leads[id].is_active

\* C4: listForLead and activity create answer the same NotFound for a lead
\* id that does not exist, a soft-deleted lead and an active lead of another
\* account (non-admin caller), and never a permission-denied outcome.
C4_ActivitiesHideLeads ==
    \A c \in Callers, id \in LeadIds :
        ~Visible(c, id) =>
            /\ \A r \in list_activities(c, id) :
                  r = Resp(404, "Lead not found or is archived", <<>>, 0)
            /\ \A p \in ActivityPayloads :
                  validate_call_duration(p) =>
                      add_activity(c, id, p).resp =
                          Resp(404, "Lead not found or is archived", <<>>, 0)

AllFinished == \A w \in Workers : pc[w] \in Finished

\* C5: after N concurrent startups on a store without the bootstrap email,
\* exactly one account with that email exists, it is an admin, and every
\* other startup ended as LockDenied or Exists.
C5_BootstrapExactlyOnce ==
    AllFinished =>
        /\ Cardinality(ByEmail(ADMIN_EMAIL)) = 1
        /\ \A u \in ByEmail(ADMIN_EMAIL) : users[u].is_admin
        /\ Cardinality({w \in Workers : pc[w] = "created"}) = 1
        /\ \A w \in Workers : pc[w] \in {"created", "denied", "exists"}

\* C6: at most one startup holds the bootstrap lock at a time.
C6_LockExclusive ==
    /\ Cardinality({w \in Workers : pc[w] \in Holding}) <= 1
    /\ \A w \in Workers : pc[w] \in Holding => lock = w

\* one worker is creating the account under the lock, another was denied it
C6_Witness ==
    \E v, w \in Workers : pc[v] = "creating" /\ pc[w] = "denied" /\ lock = v

BadCall(p) ==
    p.activity_type = "call" /\ (p.duration = None \/ p.duration[1] <= 0)

\* C8: on a visible lead, a call with a null, zero or negative duration is
\* refused with a validation error and adds no row; a call with a positive
\* duration, and every email, meeting and note, is stored.
C8_CallDuration ==
    \A c \in Callers, id \in LeadIds, p \in ActivityPayloads :
        Visible(c, id) =>
            LET r == add_activity(c, id, p)
            IN  IF BadCall(p)
                THEN r.resp.code = 422 /\ r.activities = activities
                ELSE /\ r.resp.code = 201
                     /\ Len(r.activities) = Len(activities) + 1
                     /\ SubSeq(r.activities, 1, Len(activities)) = activities
                     /\ r.activities[Len(activities) + 1].lead_id = id
                     /\ r.activities[Len(activities) + 1].activity_type = p.activity_type
                     /\ r.activities[Len(activities) + 1].duration = p.duration

\* an email without a duration is stored and a later create was refused with 422
C8_Witness ==
    /\ last = Last("add_activity", 422)
    /\ Len(activities) = 1
    /\ activities[1].activity_type = "email"
    /\ activities[1].duration = None

\* C9: activity create on a lead the caller cannot see, as a call with a
\* missing or non-positive duration, answers NotFound, not ValidationError.
C9_VisibilityFirst ==
    \A c \in Callers, id \in LeadIds, p \in ActivityPayloads :
        (~Visible(c, id) /\ BadCall(p)) => add_activity(c, id, p).resp.code = 404

\* update and softDelete answer NotFound and keep the table for every lead
\* the caller cannot see
C10_Refused ==
    \A c \in Callers, id \in LeadIds :
        ~Visible(c, id) =>
            /\ delete_lead(c, id) = [resp |-> NotFoundLead, leads |-> leads]
            /\ \A p \in LeadUpdatePayloads :
                  update_lead(c, id, p) = [resp |-> NotFoundLead, leads |-> leads]

\* a refused update or softDelete changes no row
C10_NoEffect ==
    (last'.op \in {"update_lead", "delete_lead"} /\ last'.code = 404) =>
        (leads' = leads /\ activities' = activities /\ users' = users)

\* C10: update and softDelete on a lead id that does not exist, is owned by
\* another account, or is already soft-deleted all answer the same NotFound
\* and change no row; a second softDelete of a lead answers NotFound.
C10_NotFoundNoEffect == [](C10_Refused) /\ [][C10_NoEffect]_vars

\* a softDelete was refused with 404 on a full table whose leads are all soft-deleted
C10_Witness ==
    /\ last = Last("delete_lead", 404)
    /\ Len(leads) = MaxLeads
    /\ \A id \in 1..Len(leads) : ~leads[id].is_active

\* the value a sent field is stored as
PayloadValue(p, k) == IF k = "is_active" THEN p[k][1] ELSE p[k]

\* the update changes at least one stored value
Changes(p, row) == \E k \in DOMAIN p : PayloadValue(p, k) # row[k]

\* the fields sent are stored as sent, the other fields of the lead and the
\* other leads stay
FieldsSet(before, after, id, p) ==
    /\ Len(after) = Len(before)
    /\ \A j \in 1..Len(before) : j # id => after[j] = before[j]
    /\ \A k \in DOMAIN p : after[id][k] = PayloadValue(p, k)
    /\ \A k \in DOMAIN before[id] \ (DOMAIN p \cup {"updated_at"}) :
          after[id][k] = before[id][k]

\* C11 as stated: a successful update stores exactly the fields sent, and
\* sets updated_at to the time of the request; the other fields, the other
\* leads and the activities stay.
C11_UpdateRefreshes ==
    [][(last'.op = "update_lead" /\ last'.code = 200) =>
          /\ activities' = activities
          /\ \E c \in Callers, id \in LeadIds, p \in UpdPayloads :
                /\ update_lead(c, id, p).resp.code = 200
                /\ leads' = update_lead(c, id, p).leads
                /\ FieldsSet(leads, leads', id, p)
                /\ leads'[id].updated_at = now]_vars

\* every successful update stores exactly the fields sent, and sets updated_at
\* when one of them changes the row
C11_Fields ==
    \A c \in Callers, id \in LeadIds, p \in UpdPayloads :
        LET r == update_lead(c, id, p)
        IN  r.resp.code = 200 =>
              /\ FieldsSet(leads, r.leads, id, p)
              /\ r.leads[id].updated_at =
                    IF Changes(p, leads[id]) THEN now ELSE leads[id].updated_at

\* an update changes no activity and no account, and adds no lead
C11_Frame ==
    last'.op = "update_lead" =>
        (activities' = activities /\ users' = users /\ Len(leads') = Len(leads))

\* C11 (amended): a successful update stores exactly the fields sent (an
\* explicit null included); updated_at becomes the time of the request when a
\* sent value differs from the stored one, and stays otherwise; the other
\* fields, the other leads and the activities stay.
C11_PartialUpdate == [](C11_Fields) /\ [][C11_Frame]_vars

\* an update was answered 200; one lead holds the explicit null and the time
\* of the request, another was never written
C11_Witness ==
    /\ last = Last("update_lead", 200)
    /\ \E i, j \in 1..Len(leads) :
          /\ leads[i].status = None /\ leads[i].updated_at = now
          /\ leads[j].updated_at < now

\* the rows are in created_at-descending order, none twice
SortedDesc(body) ==
    \A i, j \in 1..Len(body) :
        i < j => (body[i] # body[j] /\ leads[body[i]].created_at >= leads[body[j]].created_at)

\* the number of pages of `size` that hold `total` rows
NPages(total, size) == (total + size - 1) \div size

\* one response of list for each page of a result of `total` rows
PageFamilies(c, f, size, total) ==
    LET pages == [k \in 1..NPages(total, size) |-> list_leads(c, f, k, size)]
    IN  {fam \in [DOMAIN pages -> UNION Range(pages)] :
            \A k \in DOMAIN pages : fam[k] \in pages[k]}

\* the pages' items, one page after the other
RECURSIVE Concat(_, _)
Concat(fam, n) == IF n = 0 THEN <<>> ELSE Concat(fam, n - 1) \o fam[n].body

AllItems(fam) == Concat(fam, Len(fam))

DistinctCreated(S) == \A i, j \in S : i # j => leads[i].created_at # leads[j].created_at

\* export fails the way list fails
SameFailure(c, f) ==
    \A code \in {400, 500} :
        (\E e \in export_leads_csv(c, f) : e.code = code)
            <=> (\E size \in PageSizes : \E r \in list_leads(c, f, 1, size) : r.code = code)

\* C12 as stated: export's rows are list's pages put one after the other, in
\* the same order, their number is list's total, and export fails with
\* InvalidFilter exactly when list does.
C12_ExportIsList ==
    \A c \in Callers, f \in ListFilters :
        /\ SameFailure(c, f)
        /\ \A e \in export_leads_csv(c, f) :
              e.code = 200 =>
                \A size \in PageSizes : \A fam \in PageFamilies(c, f, size, Len(e.body)) :
                    /\ AllItems(fam) = e.body
                    /\ \A k \in DOMAIN fam : fam[k].total = Len(e.body)

\* C12 (amended): export returns, in created_at-descending order, exactly the
\* set of leads list counts in total; every page of list holds leads of that
\* set in created_at-descending order; when their created_at values are
\* distinct, list's pages put one after the other are export's rows in
\* export's order; export fails exactly when list does.
C12_ExportMatchesList ==
    \A c \in Callers, f \in ListFilters :
        /\ SameFailure(c, f)
        /\ \A e \in export_leads_csv(c, f) :
              e.code = 200 =>
                /\ SortedDesc(e.body)
                /\ \A e2 \in export_leads_csv(c, f) : Range(e2.body) = Range(e.body)
                /\ \A size \in PageSizes, page \in 1..MaxPage :
                      \A r \in list_leads(c, f, page, size) :
                          /\ r.code = 200
                          /\ r.total = Len(e.body)
                          /\ Range(r.body) \subseteq Range(e.body)
                          /\ SortedDesc(r.body)
                /\ DistinctCreated(Range(e.body)) =>
                      \A size \in PageSizes :
                          \A fam \in PageFamilies(c, f, size, Len(e.body)) :
                              AllItems(fam) = e.body

\* an export was answered 200 while the admin's scope holds two leads created
\* at different times, one of them outside the budget filter of 5
C12_Witness ==
    /\ last = Last("export_leads_csv", 200)
    /\ \E i, j \in _scoped_query(3) :
          /\ leads[i].created_at < leads[j].created_at
          /\ leads[i].budget_min = Some(5)
          /\ leads[j].budget_min = Some(4)

\* the in-scope leads matching the filters
Matching(c, f) == _filter_leads_query(_scoped_query(c), f)

\* C19: list's total is the number of in-scope leads matching the filters,
\* whatever the page and page size; its items are positions (page-1)*size+1 ..
\* page*size of a created_at-descending ordering of those leads, so their
\* number is min(size, max(0, total - (page-1)*size)); when created_at values
\* are distinct the pages together hold each matching lead exactly once.
C19_Pagination ==
    \A c \in Callers, f \in ListFilters, size \in PageSizes :
        (\A r \in list_leads(c, f, 1, size) : r.code = 200) =>
            /\ \A page \in 1..MaxPage : \A r \in list_leads(c, f, page, size) :
                  LET total == Cardinality(Matching(c, f))
                      rest == total - (page - 1) * size
                  IN  /\ r.code = 200
                      /\ r.total = total
                      /\ Len(r.body) = Min(size, IF rest > 0 THEN rest ELSE 0)
                      /\ \E o \in Orderings(Matching(c, f)) :
                            \A n \in 1..Len(r.body) : r.body[n] = o[(page - 1) * size + n]
            /\ DistinctCreated(Matching(c, f)) =>
                  \A fam \in PageFamilies(c, f, size, Cardinality(Matching(c, f))) :
                      /\ Len(AllItems(fam)) = Cardinality(Matching(c, f))
                      /\ Range(AllItems(fam)) = Matching(c, f)

\* a list was answered 200 while the admin's scope holds two leads created at
\* different times: page 2 of size 1 is not empty
C19_Witness ==
    /\ last = Last("list_leads", 200)
    /\ Cardinality(_scoped_query(3)) >= 2
    /\ DistinctCreated(_scoped_query(3))
    /\ \A r \in list_leads(3, NoFilters, 2, 1) : Len(r.body) = 1

\* the text is empty or whitespace only
Blank(text) == strip(text) = <<>>

\* the text, whitespace aside, is a decimal integer with or without a sign
IsNumber(text) ==
    LET t == strip(text)
        d == IF t # <<>> /\ t[1] = "-" THEN Tail(t) ELSE t
    IN  d # <<>> /\ \A i \in 1..Len(d) : d[i] \in Digits

NumberValue(text) ==
    LET t == strip(text)
    IN  IF t[1] = "-" THEN 0 - DecimalValue(Tail(t)) ELSE DecimalValue(t)

\* the in-scope leads a request with the one budget filter f is to keep
KeptByBudget(c, f) ==
    {i \in 1..Len(leads) :
        /\ Visible(c, i)
        /\ (f.min_budget # None /\ ~Blank(f.min_budget[1])) =>
              (leads[i].budget_min # None
                  /\ leads[i].budget_min[1] >= NumberValue(f.min_budget[1]))
        /\ (f.max_budget # None /\ ~Blank(f.max_budget[1])) =>
              (leads[i].budget_max # None
                  /\ leads[i].budget_max[1] <= NumberValue(f.max_budget[1]))}

\* the budget filter text of a request with one budget filter
BudgetText(f) == IF f.min_budget # None THEN f.min_budget ELSE f.max_budget

\* C20: in list and export, an absent or blank budget filter applies no
\* bound; a non-blank text that is not a number fails with InvalidFilter and
\* returns no rows; a non-blank number n is accepted and keeps exactly the
\* in-scope leads with budget_min >= n (budget_max <= n for the upper bound).
C20_BudgetFilter ==
    \A c \in Callers, f \in OneBudgetFilters :
        \A r \in export_leads_csv(c, f) \cup list_leads(c, f, 1, 10) :
            IF BudgetText(f) # None /\ ~Blank(BudgetText(f)[1]) /\ ~IsNumber(BudgetText(f)[1])
            THEN r.code = 400 /\ r.body = <<>>
            ELSE r.code = 200 /\ Range(r.body) = KeptByBudget(c, f)

\* the lead rows of account a, and the activity rows on them
OwnLeads(a) == {<<i, leads[i]>> : i \in {j \in 1..Len(leads) : leads[j].user_id = a}}

OwnActivities(a) ==
    {<<k, activities[k]>> :
        k \in {j \in 1..Len(activities) : leads[activities[j].lead_id].user_id = a}}

\* a step that writes rows but leaves a member's leads and their activities
\* alone leaves the member's snapshot for the same instant as it was
C13_OthersUnseen ==
    \A a \in Callers, t \in {now} :
        (/\ ~users[a].is_admin
         /\ <<leads, activities>>' # <<leads, activities>>
         /\ OwnLeads(a)' = OwnLeads(a)
         /\ OwnActivities(a)' = OwnActivities(a))
            => dashboard(a, t)' = dashboard(a, t)

\* an admin's total_leads counts the active leads of every owner
C13_AdminTotal ==
    \A c \in Callers :
        users[c].is_admin =>
            \A s \in dashboard(c, now) :
                s.total_leads = Cardinality({i \in 1..Len(leads) : leads[i].is_active})

\* C13: a member's dashboard snapshot depends only on the member's leads and
\* the activities on them: creating, updating or soft-deleting other
\* accounts' leads, or logging activities on them, leaves the snapshot for
\* the same instant unchanged; an admin's total_leads counts every owner's
\* active leads.
C13_DashboardIsolation == [](C13_AdminTotal) /\ [][C13_OthersUnseen]_vars

\* member 1 holds an active lead; a lead of another account was created, won,
\* given an activity and soft-deleted; then a dashboard was served
C13_Witness ==
    /\ last = Last("dashboard", 200)
    /\ \E i, j \in 1..Len(leads) :
          /\ leads[i].user_id = 1 /\ leads[i].is_active
          /\ leads[j].user_id # 1 /\ leads[j].status = Some("won") /\ ~leads[j].is_active
          /\ \E k \in 1..Len(activities) : activities[k].lead_id = j

\* total_activities counts the activities on the caller's leads (on every
\* lead, for an admin), active or soft-deleted
C15_CountsAllParents ==
    \A c \in Callers : \A s \in dashboard(c, now) :
        s.total_activities =
            Cardinality({k \in 1..Len(activities) :
                           users[c].is_admin \/ leads[activities[k].lead_id].user_id = c})

\* a successful softDelete lowers total_leads by one and keeps total_activities
C15_DeleteKeepsActivities ==
    (last'.op = "delete_lead" /\ last'.code = 204) =>
        \E id \in 1..Len(leads) :
            /\ leads[id].is_active /\ ~leads'[id].is_active
            /\ \A c \in Callers, t \in {now} :
                  Visible(c, id) =>
                      \A s \in dashboard(c, t) : \A s2 \in dashboard(c, t)' :
                          /\ s2.total_leads = s.total_leads - 1
                          /\ s2.total_activities = s.total_activities

\* C15: total_activities counts every activity whose parent lead is the
\* caller's (every activity, for an admin), active or not; a successful
\* softDelete lowers total_leads by one and leaves total_activities unchanged.
C15_TotalActivities == [](C15_CountsAllParents) /\ [][C15_DeleteKeepsActivities]_vars

\* a lead that carries an activity was soft-deleted
C15_Witness ==
    /\ last = Last("delete_lead", 204)
    /\ \E k \in 1..Len(activities) : ~leads[activities[k].lead_id].is_active

\* two quotients are the same number
SameRatio(x, y) == x[1] * y[2] = y[1] * x[2]

\* C16: win_rate_30d is 0.0 when won_30d + lost_30d = 0 and won_30d /
\* (won_30d + lost_30d), between 0 and 1, otherwise; avg_activities_per_lead_30d
\* is 0.0 when total_leads = 0, also when activities lie inside the window,
\* and no snapshot fails on a division.
C16_NoDivisionByZero ==
    \A c \in Callers : \A s \in dashboard(c, now) :
        /\ s.code = 200
        /\ IF s.won_30d + s.lost_30d = 0
           THEN SameRatio(s.win_rate_30d, Zero)
           ELSE /\ SameRatio(s.win_rate_30d, <<s.won_30d, s.won_30d + s.lost_30d>>)
                /\ 0 <= s.win_rate_30d[1] /\ s.win_rate_30d[1] <= s.win_rate_30d[2]
        /\ IF s.total_leads = 0
           THEN SameRatio(s.avg_activities_per_lead_30d, Zero)
           ELSE SameRatio(s.avg_activities_per_lead_30d,
                          <<Cardinality({k \in act_q(c) :
                                           activities[k].activity_date >= now - days(30)}),
                            s.total_leads>>)

\* a dashboard was served while member 1 has no active lead but an activity
\* inside the window, and the admin counts a won and no lost lead
C16_Witness ==
    /\ last = Last("dashboard", 200)
    /\ lead_q(1) = {} /\ act_30d(1, now) # {}
    /\ won_30d(3, now) > 0 /\ lost_30d(3, now) = 0

\* the sum of the counts of a group-by map
RECURSIVE SumCounts(_)
SumCounts(m) ==
    IF DOMAIN m = {} THEN 0
    ELSE LET k == CHOOSE x \in DOMAIN m : TRUE
         IN  m[k] + SumCounts([x \in DOMAIN m \ {k} |-> m[x]])

\* C14: in every snapshot, whatever the leads' sources (null, empty or
\* other text), the counts of leads_by_status and those of leads_by_source
\* each add up to total_leads, and the leads with a null source are counted
\* under "unknown".
C14_GroupsPartition ==
    \A c \in Callers : \A s \in dashboard(c, now) :
        /\ SumCounts(s.leads_by_status) = s.total_leads
        /\ SumCounts(s.leads_by_source) = s.total_leads
        /\ \A i \in lead_q(c) :
              leads[i].source = None =>
                  /\ "unknown" \in DOMAIN s.leads_by_source
                  /\ s.leads_by_source["unknown"] >=
                        Cardinality({j \in lead_q(c) : leads[j].source = None})

----------------------------------------------------------------------------
(* C18: the dashboard beside concurrent writes *)

\* C18: every returned dashboard describes one state of the store, also when
\* other requests create, update or soft-delete leads while it runs: its
\* leads_by_status counts sum to total_leads, and
\* new_leads_7d <= new_leads_30d <= total_leads
C18_OneSnapshot ==
    (dash.pc = "returned" /\ dash.payload.code = 200) =>
        /\ SumCounts(dash.payload.leads_by_status) = dash.payload.total_leads
        /\ dash.payload.new_leads_7d <= dash.payload.new_leads_30d
        /\ dash.payload.new_leads_30d <= dash.payload.total_leads

----------------------------------------------------------------------------
(* C23, C24: a lead's owner and its is_active flag *)

\* whatever the body holds, the row create adds is the caller's and active
C23_CreateOwned ==
    \A c \in Callers, body \in LeadCreateBodies :
        LET r == create_lead(c, LeadCreate(body))
        IN  /\ r.resp.code = 201
            /\ Len(r.leads) = Len(leads) + 1
            /\ r.leads[Len(leads) + 1].user_id = c
            /\ r.leads[Len(leads) + 1].is_active

\* no step removes a lead or changes the owner of one
C23_OwnerKept ==
    /\ Len(leads') >= Len(leads)
    /\ \A i \in 1..Len(leads) : leads'[i].user_id = leads[i].user_id

\* C23: create sets the lead's owner to the caller, admin or not and whatever
\* the payload contains, with is_active = true; no later update, soft delete
\* or activity operation, by the owner or by an admin, changes any lead's owner.
C23_OwnerFixed == [](C23_CreateOwned) /\ [][C23_OwnerKept]_vars

\* the admin created a lead, which was then updated by the admin
C23_Witness ==
    /\ last = Last("update_lead", 200)
    /\ \E i \in 1..Len(leads) :
          /\ leads[i].user_id = 3
          /\ leads[i].updated_at = now
          /\ leads[i].status = Some("new")

\* C24: soft delete is the only operation that changes a lead's is_active:
\* an update leaves is_active as it was, whatever its payload contains.
C24_OnlySoftDelete ==
    [][\A i \in 1..Len(leads) :
          leads'[i].is_active # leads[i].is_active
              => last' = Last("delete_lead", 204)]_vars

----------------------------------------------------------------------------
(* C25: the weekly trend counts every recent lead once *)

\* the sum of the counts of the first n entries of a trend
RECURSIVE TrendSum(_, _)
TrendSum(w, n) == IF n = 0 THEN 0 ELSE TrendSum(w, n - 1) + w[n].count

\* C25: at every instant, on any weekday, and in every store state, each
\* active in-scope lead created at or after now minus 7 weeks is counted in
\* exactly one leads_trend_8w entry: the eight counts sum to the number of
\* such leads.
C25_TrendCountsAll ==
    \A c \in Callers : \A s \in dashboard(c, now) :
        TrendSum(s.leads_trend_8w, 8)
            = Cardinality({i \in lead_q(c) : leads[i].created_at >= now - days(7 * 7)})

----------------------------------------------------------------------------
(* C26: an update beside a soft delete *)

\* the step is the commit of the update in flight
UpdCommits == upd.pc = "loaded" /\ upd'.pc = "idle"

\* C26 as stated: update's visibility check and its write are one atomic step
\* with respect to soft delete: once a soft delete of lead L has committed,
\* no update of L that completes afterwards changes any field of L, even if
\* it looked L up while L was still active.
C26_UpdateAtomic ==
    [][(UpdCommits /\ ~leads[upd.lead_id].is_active)
          => leads'[upd.lead_id] = leads[upd.lead_id]]_vars

\* an update passes its lookup only while the lead is active, and the lookup
\* writes nothing
C26_Lookup ==
    (upd.pc = "idle" /\ upd'.pc = "loaded") =>
        /\ leads[upd'.lead_id].is_active
        /\ upd'.row = leads[upd'.lead_id]
        /\ leads' = leads

\* the commit writes the one row, payload fields only, and never makes a
\* soft-deleted lead active
C26_Commit ==
    UpdCommits =>
        /\ \A j \in 1..Len(leads) : j # upd.lead_id => leads'[j] = leads[j]
        /\ Len(leads') = Len(leads)
        /\ leads'[upd.lead_id].is_active => leads[upd.lead_id].is_active
        /\ \A k \in DOMAIN leads[upd.lead_id] \ {"updated_at"} :
              leads'[upd.lead_id][k] # leads[upd.lead_id][k]
                  => /\ k \in DOMAIN upd.payload
                     /\ leads'[upd.lead_id][k] = PayloadValue(upd.payload, k)

\* C26 (amended): update's visibility check and its write are two steps. An
\* update passes the check only while the lead is active; when a soft delete
\* of the lead commits between the two, the update still writes, to that
\* lead only, fields of its payload (the last writer wins), and the lead
\* stays soft-deleted.
C26_LastWriterWins == [][C26_Lookup /\ C26_Commit]_vars

\* an update that loaded lead 1 before its soft delete has committed after
\* it: the lead is soft-deleted and has the update's status
C26_Witness ==
    /\ last = Last("update_lead", 200)
    /\ upd.pc = "idle"
    /\ ~leads[1].is_active
    /\ leads[1].status = Some("won")

----------------------------------------------------------------------------
(* C21: the token the current caller is taken from *)

\* the token is validly signed and unexpired
Verifies(token) == token.sig = "valid" /\ token.exp >= now

\* the subject names an integer: a signed run of digits, blanks aside
IntegerId(sub) ==
    /\ sub # None
    /\ \E a, b \in 0..Len(sub[1]) :
          /\ a < b
          /\ \A i \in 1..Len(sub[1]) : (i <= a \/ i > b) => sub[1][i] = " "
          /\ \A i \in (a + 1)..b :
                sub[1][i] \in Digits \/ (i = a + 1 /\ i < b /\ sub[1][i] \in {"+", "-"})

InvalidOrExpiredToken ==
    [code |-> 401, detail |-> "Invalid or expired token. Please log in again."]

UnknownSubject == [code |-> 404, detail |-> "User not found."]

\* which tokens are accepted and what the others yield
C21_Accepts ==
    \A token \in Tokens :
        LET r == get_current_user(token)
        IN  /\ r.code = 200 => (Verifies(token) /\ token.type = Some("access"))
            /\ (~Verifies(token) \/ token.type # Some("access")
                    \/ ~IntegerId(token.sub)) => r = InvalidOrExpiredToken
            /\ (Verifies(token) /\ token.type = Some("access") /\ IntegerId(token.sub)
                    /\ r.code # 200) => r = UnknownSubject
            /\ r.code = 200 => r.user \in DOMAIN users

\* a request whose token is refused leaves the leads and the activities
C21_RefusedIdle ==
    last'.op = "get_current_user" =>
        /\ last'.code \in {401, 404}
        /\ leads' = leads
        /\ activities' = activities

\* C21: a token is accepted only if it verifies and its type claim is
\* "access": a validly signed, unexpired token whose type is missing or
\* different, or whose subject is not an integer id, yields
\* InvalidOrExpiredToken; a valid access token whose subject matches no
\* account yields UnknownSubject; in none of these cases does the requested
\* operation read or change a lead or an activity.
C21_AccessTokenOnly == [](C21_Accepts) /\ [][C21_RefusedIdle]_vars

\* a request with a refused token was answered 401 while a lead and an
\* activity written by accepted requests are in the store
C21_Witness ==
    /\ last = Last("get_current_user", 401)
    /\ Len(leads) = MaxLeads
    /\ Len(activities) > 0

----------------------------------------------------------------------------
(* C22: the stored addresses *)

\* C22: in every reachable state every stored account email is
\* case-normalized, whether the account was registered or bootstrapped: no
\* two accounts have emails that differ only in letter case, and an account
\* registered with email E and password P can then authenticate with (E, P).
C22_EmailsNormalized ==
    /\ \A i \in 1..Len(users) : users[i].email = lower(users[i].email)
    /\ \A i, j \in 1..Len(users) :
          i # j => lower(users[i].email) # lower(users[j].email)
    /\ \A user \in RegisterBodies :
          register(users, user).code = 201
              => login(register(users, user).users, user.email, user.password).code = 200


====
